---- MODULE Spec2Model ----
(***************************************************************************)
(* Visual timer app (src/script.js): a registry of countdown timers driven *)
(* by one shared requestAnimationFrame loop.                               *)
(*                                                                         *)
(* The page is single threaded: every handler (form submit, click on the   *)
(* timers container, animation frame callback) runs to completion, so each *)
(* handler is one action.  Date.now() is the variable now, advanced by the *)
(* environment between handlers.                                           *)
(***************************************************************************)
EXTENDS Integers, Sequences, FiniteSets, TLC

VARIABLES
    activeTimers,            \* let activeTimers = []           (script.js:45)
    isAnimationLoopRunning,  \* let isAnimationLoopRunning      (script.js:46)
    pendingFrames,           \* updateAllTimers callbacks queued by requestAnimationFrame
    timersContainer,         \* .timer-instance elements attached to #timersContainer
    timerLogList,            \* <li> entries of #timerLogList, first child first
    beepCalls,               \* calls of playBeep(), by the element whose completion made them
    nextElement,             \* identity of the next cloned .timer-instance element
    now,                     \* the value Date.now() returns
    clockBacks               \* how often the clock has been set back

vars == <<activeTimers, isAnimationLoopRunning, pendingFrames, timersContainer,
          timerLogList, beepCalls, nextElement, now, clockBacks>>

---------------------------------------------------------------------------
(* Bounds of the model *)

\* createTimer calls in one run
MaxTimers == 2
\* times the clock is set back in one run
MaxClockBacks == 1

\* Values typed into #timerName
NameInputs == {" Tea "}
\* Values typed into #timerDuration, in minutes, as <<numerator, denominator>>;
\* <<0, 1>> is a value the submit handler rejects.  The valid ones give a whole
\* number of milliseconds: 1/12 min = 5000 ms, 1 min, 2 min.
DurationInputs == {<<0, 1>>, <<1, 12>>, <<1, 1>>, <<2, 1>>}
\* Instants at which handlers run
ClockValues == {0, 5001, 60000}
\* Classes of elements a click can hit inside a .timer-instance
ClickTargets == {"timer-delete", "timer-toggle-pause", "timer-label"}

Elements == 1..MaxTimers

---------------------------------------------------------------------------
(* Arithmetic and string helpers of the host language *)

\* Math.ceil(n / d) for integers n and d > 0
MathCeil(n, d) == -((-n) \div d)

\* Math.round(n / d) for integers n >= 0 and d > 0 (halves round up)
MathRound(n, d) == (2 * n + d) \div (2 * d)

\* Math.floor(n / d)
MathFloor(n, d) == n \div d

Digit(k) == CASE k = 0 -> "0" [] k = 1 -> "1" [] k = 2 -> "2" [] k = 3 -> "3"
              [] k = 4 -> "4" [] k = 5 -> "5" [] k = 6 -> "6" [] k = 7 -> "7"
              [] k = 8 -> "8" [] k = 9 -> "9"

\* String(n) for an integer n >= 0
RECURSIVE String(_)
String(n) == IF n < 10 THEN Digit(n) ELSE String(n \div 10) \o Digit(n % 10)

\* s.padStart(2, '0')
PadStart2(s) == IF Len(s) >= 2 THEN s ELSE IF Len(s) = 1 THEN "0" \o s ELSE "00"

\* value.trim() of the name inputs
Trim(s) == IF s = " Tea " THEN "Tea" ELSE s

---------------------------------------------------------------------------
(* Pure functions of script.js *)

\* formatTime(ms): script.js:196-202
formatTime(ms) ==
    LET totalSeconds == MathCeil(ms + 999, 1000)
        seconds == totalSeconds % 60
        minutes == MathFloor(totalSeconds, 60)
    IN  PadStart2(String(minutes)) \o ":" \o PadStart2(String(seconds))

\* the text logTimer builds for a finished timer: script.js:176-185
logTimer(timerObj) ==
    LET totalSeconds == MathRound(timerObj.totalDuration, 1000)
        minutes == MathFloor(totalSeconds, 60)
        seconds == totalSeconds % 60
        timeString == PadStart2(String(minutes)) \o ":" \o PadStart2(String(seconds))
    IN  [element |-> timerObj.element, name |-> timerObj.name, timeString |-> timeString]

\* durationInMinutes * 60 * 1000: script.js:56
TotalDurationMs(durationInMinutes) ==
    (durationInMinutes[1] * 60 * 1000) \div durationInMinutes[2]

Abs(n) == IF n < 0 THEN -n ELSE n

RECURSIVE Gcd(_, _)
Gcd(a, b) == IF b = 0 THEN Abs(a) ELSE Gcd(b, a % b)

\* The stroke-dashoffset attribute is kept as the fraction <<num, den>> of
\* CIRCUMFERENCE it stands for, in lowest terms, so that equal attribute
\* values are equal here: 0 is <<0, 1>>, CIRCUMFERENCE is <<1, 1>>.
Fraction(num, den) == <<num \div Gcd(Abs(num), den), den \div Gcd(Abs(num), den)>>

\* setAttribute("stroke-dashoffset", 0): script.js:70
OffsetZero == Fraction(0, 1)
\* setAttribute("stroke-dashoffset", CIRCUMFERENCE): script.js:124
OffsetCircumference == Fraction(1, 1)

\* CIRCUMFERENCE * (1 - timeRemaining / totalDuration): script.js:132-133
RunningOffset(timeRemaining, totalDuration) ==
    Fraction(totalDuration - timeRemaining, totalDuration)

\* NewTimer, with the deadline not offset by the clock
NewTimerNoClock(element, name, totalDurationMs, clock) ==
    [ element |-> element,
      label |-> name,
      text |-> formatTime(totalDurationMs),
      dashoffset |-> OffsetZero,
      classes |-> {},
      endTime |-> totalDurationMs,
      totalDuration |-> totalDurationMs,
      name |-> name,
      isFinished |-> FALSE,
      isPaused |-> FALSE,
      timeRemainingWhenPaused |-> 0 ]

\* the timer object and the element values createTimer sets: script.js:67-87
NewTimer(element, name, totalDurationMs, clock) ==
    [ element |-> element,
      label |-> name,
      text |-> formatTime(totalDurationMs),
      dashoffset |-> OffsetZero,
      classes |-> {},
      endTime |-> clock + totalDurationMs,
      totalDuration |-> totalDurationMs,
      name |-> name,
      isFinished |-> FALSE,
      isPaused |-> FALSE,
      timeRemainingWhenPaused |-> 0 ]

---------------------------------------------------------------------------
(* The animation frame callback *)

\* the "Timer finished" branch: script.js:121-126
FinishTimer(timer) ==
    [timer EXCEPT !.isFinished = TRUE,
                  !.dashoffset = OffsetCircumference,
                  !.text = "Done!",
                  !.classes = @ \cup {"finished"}]

\* the "Timer still running" branch: script.js:130-135
RunTimer(timer, timeRemaining) ==
    [timer EXCEPT !.dashoffset = RunningOffset(timeRemaining, timer.totalDuration),
                  !.text = formatTime(timeRemaining)]

\* Skipped, with the isPaused test forgotten
SkippedFinishedOnly(timer) == timer.isFinished

\* Skipped, with the isFinished test forgotten
SkippedPausedOnly(timer) == timer.isPaused

\* the timers the loop body skips: script.js:114
Skipped(timer) == timer.isFinished \/ timer.isPaused

\* Expired, with < for <=
ExpiredStrict(timer, clock) == timer.endTime - clock < 0

\* timeRemaining <= 0: script.js:119-121
Expired(timer, clock) == timer.endTime - clock <= 0

\* one iteration of the for loop: script.js:112-138
UpdateTimer(timer, clock) ==
    IF Skipped(timer) THEN timer
    ELSE IF Expired(timer, clock) THEN FinishTimer(timer)
    ELSE RunTimer(timer, timer.endTime - clock)

\* SetsActive, with a paused timer not counted: only a timer the frame draws
\* keeps the loop running
SetsActiveRunningOnly(timer, clock) == ~Skipped(timer) /\ ~Expired(timer, clock)

\* SetsActive, with every timer counted as work to do
SetsActiveAlways(timer, clock) == TRUE

\* whether an iteration sets hasActiveTimers: script.js:115 and 136
SetsActive(timer, clock) ==
    IF Skipped(timer) THEN ~timer.isFinished
    ELSE ~Expired(timer, clock)

\* hasActiveTimers after the loop: script.js:110-138
hasActiveTimers(timers, clock) ==
    \E i \in 1..Len(timers) : SetsActive(timers[i], clock)

\* whether an iteration reaches playBeep() and logTimer(timer): script.js:128-129
Completes(timer, clock) == ~Skipped(timer) /\ Expired(timer, clock)

\* the timers that complete in one pass, in registry order
RECURSIVE Completing(_, _)
Completing(timers, clock) ==
    IF timers = <<>> THEN <<>>
    ELSE (IF Completes(Head(timers), clock) THEN <<Head(timers)>> ELSE <<>>)
         \o Completing(Tail(timers), clock)

\* timerLogList.prepend(logItem) for each completed timer in turn: script.js:188
RECURSIVE PrependAll(_, _)
PrependAll(completed, list) ==
    IF completed = <<>> THEN list
    ELSE PrependAll(Tail(completed), <<logTimer(Head(completed))>> \o list)

\* updateAllTimers, with the records that are finished after the pass taken
\* out of the registry
updateAllTimersRemoving ==
    /\ pendingFrames > 0
    /\ LET clock == now
           completed == Completing(activeTimers, clock)
           active == hasActiveTimers(activeTimers, clock)
           updated == [i \in 1..Len(activeTimers) |-> UpdateTimer(activeTimers[i], clock)]
       IN  /\ activeTimers' = SelectSeq(updated, LAMBDA t : ~t.isFinished)
           /\ beepCalls' = beepCalls \o [i \in 1..Len(completed) |-> completed[i].element]
           /\ timerLogList' = PrependAll(completed, timerLogList)
           /\ pendingFrames' = (pendingFrames - 1) + (IF active THEN 1 ELSE 0)
           /\ isAnimationLoopRunning' = IF active THEN isAnimationLoopRunning ELSE FALSE
    /\ UNCHANGED <<timersContainer, nextElement, now, clockBacks>>

\* updateAllTimers: script.js:108-145
updateAllTimers ==
    /\ pendingFrames > 0
    /\ LET clock == now
           completed == Completing(activeTimers, clock)
           active == hasActiveTimers(activeTimers, clock)
       IN  /\ activeTimers' = [i \in 1..Len(activeTimers) |->
                                  UpdateTimer(activeTimers[i], clock)]
           /\ beepCalls' = beepCalls \o [i \in 1..Len(completed) |-> completed[i].element]
           /\ timerLogList' = PrependAll(completed, timerLogList)
           \* this callback leaves the queue; requestAnimationFrame adds the next
           /\ pendingFrames' = (pendingFrames - 1) + (IF active THEN 1 ELSE 0)
           /\ isAnimationLoopRunning' = IF active THEN isAnimationLoopRunning ELSE FALSE
    /\ UNCHANGED <<timersContainer, nextElement, now, clockBacks>>

---------------------------------------------------------------------------
(* The handlers of user events *)

\* CreateStartsLoop, with the isAnimationLoopRunning test forgotten
CreateStartsLoopAlways(running) == TRUE

\* CreateStartsLoop, with the loop never started
CreateStartsLoopNever(running) == FALSE

\* if (!isAnimationLoopRunning) of createTimer: script.js:92
CreateStartsLoop(running) == ~running

\* if (!isAnimationLoopRunning) of togglePause: script.js:166
ResumeStartsLoop(running) == ~running

\* StartLoopIf, with the flag set and the requestAnimationFrame call forgotten
StartLoopIfNoRequest(starts) ==
    /\ isAnimationLoopRunning' = IF starts THEN TRUE ELSE isAnimationLoopRunning
    /\ pendingFrames' = pendingFrames

\* startAnimationLoop when `starts`, else nothing: script.js:100-103
StartLoopIf(starts) ==
    /\ isAnimationLoopRunning' = IF starts THEN TRUE ELSE isAnimationLoopRunning
    /\ pendingFrames' = IF starts THEN pendingFrames + 1 ELSE pendingFrames

\* createTimer(name, durationInMinutes): script.js:55-95
createTimer(name, durationInMinutes) ==
    LET totalDurationMs == TotalDurationMs(durationInMinutes)
        timerObj == NewTimer(nextElement, name, totalDurationMs, now)
    IN  /\ timersContainer' = Append(timersContainer, nextElement)
        /\ activeTimers' = Append(activeTimers, timerObj)
        /\ StartLoopIf(CreateStartsLoop(isAnimationLoopRunning))
        /\ nextElement' = nextElement + 1
        /\ UNCHANGED <<timerLogList, beepCalls, now, clockBacks>>

\* isNaN(duration) || duration <= 0: script.js:223
InvalidDuration(duration) == duration[1] <= 0

\* the submit listener of #timerForm: script.js:218-231
Submit(nameInput, durationInput) ==
    LET name == IF Trim(nameInput) = "" THEN "Untitled Timer" ELSE Trim(nameInput)
    IN  IF InvalidDuration(durationInput)
        THEN UNCHANGED vars
        ELSE /\ nextElement <= MaxTimers
             /\ createTimer(name, durationInput)

\* FindIndex, with "absent" taken for a position: splice(-1, 1) cuts the last
FindIndexOrLast(timers, element) ==
    IF \E i \in 1..Len(timers) : timers[i].element = element
    THEN CHOOSE i \in 1..Len(timers) :
            /\ timers[i].element = element
            /\ \A j \in 1..(i - 1) : timers[j].element # element
    ELSE Len(timers)

\* activeTimers.findIndex(timer => timer.element === element), from 1; 0 when absent
FindIndex(timers, element) ==
    IF \E i \in 1..Len(timers) : timers[i].element = element
    THEN CHOOSE i \in 1..Len(timers) :
            /\ timers[i].element = element
            /\ \A j \in 1..(i - 1) : timers[j].element # element
    ELSE 0

\* seq.splice(index, 1)
Splice(seq, index) ==
    [i \in 1..(Len(seq) - 1) |-> IF i < index THEN seq[i] ELSE seq[i + 1]]

\* the timeRemainingWhenPaused stored on pause: script.js:157
PauseRemaining(timerObj, clock) == timerObj.endTime - clock

\* ResumeEndTime, with the remaining time added to the old deadline
ResumeEndTimeFromDeadline(timerObj, clock) ==
    timerObj.endTime + timerObj.timeRemainingWhenPaused

\* ResumeEndTime, with the deadline left as it was before the pause
ResumeEndTimeStale(timerObj, clock) == timerObj.endTime

\* the endTime computed on resume: script.js:162
ResumeEndTime(timerObj, clock) == clock + timerObj.timeRemainingWhenPaused

\* togglePause, with the second request pausing anew: it stays paused and
\* stores the time remaining at the second request
togglePauseAgain(timerObj, clock) ==
    [timerObj EXCEPT !.isPaused = TRUE,
                     !.timeRemainingWhenPaused = PauseRemaining(timerObj, clock),
                     !.classes = @ \cup {"paused"}]

\* the fields togglePause writes: script.js:151-163
togglePause(timerObj, clock) ==
    IF ~timerObj.isPaused
    THEN [timerObj EXCEPT !.isPaused = TRUE,
                          !.timeRemainingWhenPaused = PauseRemaining(timerObj, clock),
                          !.classes = @ \cup {"paused"}]
    ELSE [timerObj EXCEPT !.isPaused = FALSE,
                          !.endTime = ResumeEndTime(timerObj, clock),
                          !.classes = @ \ {"paused"}]

\* MayToggle, with the isFinished guard forgotten
MayToggleAlways(timerObj) == TRUE

\* if (!timerObj.isFinished) of the click listener: script.js:249
MayToggle(timerObj) == ~timerObj.isFinished

\* the click listener of #timersContainer: script.js:234-253, with
\* removeTimer (208-214) and togglePause (151-170)
Click(element, target) ==
    LET index == FindIndex(activeTimers, element)
    IN  /\ UNCHANGED <<timerLogList, beepCalls, nextElement, now, clockBacks>>
        /\ IF index = 0
           THEN UNCHANGED <<activeTimers, timersContainer,
                            isAnimationLoopRunning, pendingFrames>>
           ELSE IF target = "timer-delete"
           THEN /\ activeTimers' = Splice(activeTimers, index)
                /\ timersContainer' = SelectSeq(timersContainer, LAMBDA e : e # element)
                /\ UNCHANGED <<isAnimationLoopRunning, pendingFrames>>
           ELSE IF target = "timer-toggle-pause" /\ MayToggle(activeTimers[index])
           THEN LET timerObj == activeTimers[index]
                    resuming == timerObj.isPaused
                IN  /\ activeTimers' = [activeTimers EXCEPT
                                           ![index] = togglePause(timerObj, now)]
                    /\ StartLoopIf(resuming /\ ResumeStartsLoop(isAnimationLoopRunning))
                    /\ UNCHANGED timersContainer
           ELSE UNCHANGED <<activeTimers, timersContainer,
                            isAnimationLoopRunning, pendingFrames>>

\* Date.now() moves on between two handlers
ClockAdvance(instant) ==
    /\ instant > now
    /\ now' = instant
    /\ UNCHANGED <<activeTimers, isAnimationLoopRunning, pendingFrames,
                   timersContainer, timerLogList, beepCalls, nextElement, clockBacks>>

---------------------------------------------------------------------------
(* The specification *)

\* the state when the DOMContentLoaded listener has run: script.js:1-46
Init ==
    /\ activeTimers = <<>>
    /\ isAnimationLoopRunning = FALSE
    /\ pendingFrames = 0
    /\ timersContainer = <<>>
    /\ timerLogList = <<>>
    /\ beepCalls = <<>>
    /\ nextElement = 1
    /\ now = 0
    /\ clockBacks = 0

Next ==
    \/ \E nameInput \in NameInputs, durationInput \in DurationInputs :
          Submit(nameInput, durationInput)
    \/ \E element \in Elements, target \in ClickTargets : Click(element, target)
    \/ updateAllTimers
    \/ \E instant \in ClockValues : ClockAdvance(instant)

Spec == Init /\ [][Next]_vars

\* Date.now() is the wall clock: the host may also set it back
ClockBack(instant) ==
    /\ clockBacks < MaxClockBacks
    /\ instant < now
    /\ now' = instant
    /\ clockBacks' = clockBacks + 1
    /\ UNCHANGED <<activeTimers, isAnimationLoopRunning, pendingFrames,
                   timersContainer, timerLogList, beepCalls, nextElement>>

NextAnyClock ==
    \/ Next
    \/ \E instant \in ClockValues : ClockBack(instant)

SpecAnyClock == Init /\ [][NextAnyClock]_vars

\* The host runs a callback handed to requestAnimationFrame (script.js:102,
\* 141) before its next repaint, and the wall clock goes on (up to the last
\* instant of the grid); the user owes no event.
FairSpec ==
    /\ Spec
    /\ WF_vars(updateAllTimers)
    /\ WF_vars(\E instant \in ClockValues : ClockAdvance(instant))

---------------------------------------------------------------------------
(* Vocabulary of the properties *)

Has(timers, element) == FindIndex(timers, element) # 0
Rec(timers, element) == timers[FindIndex(timers, element)]

IsRunning(timer) == ~timer.isFinished /\ ~timer.isPaused
IsPaused(timer) == timer.isPaused /\ ~timer.isFinished
IsFinished(timer) == timer.isFinished

\* a step of updateAllTimers (the first conjuncts follow from the last and
\* only spare evaluating it on the steps of other handlers)
FrameStep ==
    /\ pendingFrames > 0
    /\ now' = now
    /\ timersContainer' = timersContainer
    /\ updateAllTimers

BeepCount(element) ==
    Cardinality({k \in 1..Len(beepCalls) : beepCalls[k] = element})
LogCount(element) ==
    Cardinality({k \in 1..Len(timerLogList) : timerLogList[k].element = element})

---------------------------------------------------------------------------
(* C1: Finished is terminal.  In every step, whatever the clock does, a     *)
(* record that is finished and still in the registry afterwards is still   *)
(* finished and not paused, and a click on its pause button leaves every    *)
(* field of the record as it was.                                           *)
C1_FinishedIsTerminal ==
    [][\A i \in 1..Len(activeTimers) :
          activeTimers[i].isFinished =>
             /\ \A j \in 1..Len(activeTimers') :
                   (activeTimers'[j].element = activeTimers[i].element) =>
                      /\ activeTimers'[j].isFinished
                      /\ ~activeTimers'[j].isPaused
             /\ Click(activeTimers[i].element, "timer-toggle-pause") =>
                   /\ Len(activeTimers') = Len(activeTimers)
                   /\ activeTimers'[i] = activeTimers[i]]_vars

\* a finished record whose deadline lies behind the clock, beside a paused
\* one that keeps the frames coming
C1_Witness ==
    \E i, j \in 1..Len(activeTimers) :
        /\ IsFinished(activeTimers[i])
        /\ activeTimers[i].endTime < now
        /\ IsPaused(activeTimers[j])
        /\ pendingFrames > 0

---------------------------------------------------------------------------
(* C2: completion side effects fire exactly once per finished record.  A    *)
(* record of the registry has no playBeep call and no log entry while it is *)
(* not finished and exactly one of each once it is; a removed one has at    *)
(* most one; no step writes the ring offset or the time display of a        *)
(* finished record; and a frame at now = 5001 finishes a running 5000 ms    *)
(* timer due at 5000, with the ring at CIRCUMFERENCE and one completion.    *)
C2_CountsRight ==
    \A e \in Elements :
        IF Has(activeTimers, e)
        THEN LET n == IF Rec(activeTimers, e).isFinished THEN 1 ELSE 0
             IN  BeepCount(e) = n /\ LogCount(e) = n
        ELSE BeepCount(e) <= 1 /\ LogCount(e) = BeepCount(e)

C2_FinishedNotRewritten ==
    \A i \in 1..Len(activeTimers), j \in 1..Len(activeTimers') :
        (activeTimers[i].isFinished /\ activeTimers'[j].element = activeTimers[i].element) =>
            /\ activeTimers'[j].dashoffset = activeTimers[i].dashoffset
            /\ activeTimers'[j].text = activeTimers[i].text

C2_Example ==
    \A i \in 1..Len(activeTimers) :
        ( /\ now = 5001
          /\ IsRunning(activeTimers[i])
          /\ activeTimers[i].totalDuration = 5000
          /\ activeTimers[i].endTime = 5000
          /\ FrameStep ) =>
            /\ activeTimers'[i].isFinished
            /\ activeTimers'[i].dashoffset = OffsetCircumference
            /\ BeepCount(activeTimers[i].element)' = 1
            /\ LogCount(activeTimers[i].element)' = 1

C2_CompletionOnce ==
    /\ []C2_CountsRight
    /\ [][C2_FinishedNotRewritten /\ C2_Example]_vars

\* the 5000 ms timer of the example, finished with one completion recorded
C2_Witness ==
    \E e \in Elements :
        /\ Has(activeTimers, e)
        /\ Rec(activeTimers, e).isFinished
        /\ Rec(activeTimers, e).totalDuration = 5000
        /\ Rec(activeTimers, e).endTime = 5000
        /\ Rec(activeTimers, e).dashoffset = OffsetCircumference
        /\ now = 5001
        /\ BeepCount(e) = 1
        /\ LogCount(e) = 1

---------------------------------------------------------------------------
(* C3: pausing neither loses nor gains time.  The step that pauses a        *)
(* running record at clock p stores r = endTime - p; no step changes the    *)
(* stored value while the record stays paused; and the step that resumes it *)
(* at clock q, when r > 0, leaves endTime - q = r, whatever q - p is.       *)
C3_PauseKeepsTime ==
    [][\A i \in 1..Len(activeTimers), j \in 1..Len(activeTimers') :
          (activeTimers'[j].element = activeTimers[i].element) =>
             LET before == activeTimers[i]
                 after == activeTimers'[j]
             IN  /\ (IsRunning(before) /\ IsPaused(after)) =>
                        after.timeRemainingWhenPaused = before.endTime - now
                 /\ (IsPaused(before) /\ IsPaused(after)) =>
                        after.timeRemainingWhenPaused = before.timeRemainingWhenPaused
                 /\ (IsPaused(before) /\ before.timeRemainingWhenPaused > 0
                        /\ ~IsPaused(after)) =>
                        /\ IsRunning(after)
                        /\ after.endTime - now' = before.timeRemainingWhenPaused]_vars

\* The first record, of 5000 ms, was paused before it had run at all and has
\* just been resumed at 60000 with all its 5000 ms left.  The second record,
\* created after it, has a deadline before 60000, so both were created by
\* 5001: the clock moved on by at least 54999 ms during the pause.
C3_Witness ==
    /\ Len(activeTimers) = 2
    /\ activeTimers[1].element = 1 /\ activeTimers[2].element = 2
    /\ activeTimers[2].endTime < 60000
    /\ activeTimers[1].totalDuration = 5000
    /\ activeTimers[1].timeRemainingWhenPaused = 5000
    /\ IsRunning(activeTimers[1])
    /\ now = 60000
    /\ activeTimers[1].endTime - now = activeTimers[1].timeRemainingWhenPaused

---------------------------------------------------------------------------
(* C4 as stated: after a frame that leaves no Running record in the         *)
(* registry (only Paused, Finished or none), no further frame is scheduled  *)
(* and the loop is idle.                                                    *)
C4_Original ==
    [][(FrameStep
          /\ \A i \in 1..Len(activeTimers') : ~IsRunning(activeTimers'[i])) =>
             (pendingFrames' = 0 /\ ~isAnimationLoopRunning')]_vars

(* C4 as amended: after a frame that leaves only Finished records or none,  *)
(* no further frame is scheduled and the loop is idle, and an idle loop     *)
(* gets a frame again only in a step that brings a Running record into the  *)
(* registry; a frame that leaves a Paused record schedules the next frame.  *)
C4_IdleWhenAllFinished ==
    [][/\ FrameStep =>
             IF \A i \in 1..Len(activeTimers') : IsFinished(activeTimers'[i])
             THEN pendingFrames' = 0 /\ ~isAnimationLoopRunning'
             ELSE pendingFrames' = 1 /\ isAnimationLoopRunning'
       /\ (pendingFrames = 0 /\ pendingFrames' > 0) =>
             \E e \in Elements :
                /\ Has(activeTimers', e) /\ IsRunning(Rec(activeTimers', e))
                /\ ~(Has(activeTimers, e) /\ IsRunning(Rec(activeTimers, e)))]_vars

\* the loop idle beside records that all finished
C4_Witness ==
    /\ Len(activeTimers) = 2
    /\ \A i \in 1..Len(activeTimers) : IsFinished(activeTimers[i])
    /\ pendingFrames = 0
    /\ ~isAnimationLoopRunning

---------------------------------------------------------------------------
(* C5: there is never a second frame stream.  In every reachable state at   *)
(* most one updateAllTimers callback is pending, and                        *)
(* isAnimationLoopRunning is true exactly when one is.                      *)
C5_OneFrameStream ==
    /\ pendingFrames \in {0, 1}
    /\ isAnimationLoopRunning <=> (pendingFrames = 1)

\* two running records, the second created while the loop ran, share one frame
C5_Witness ==
    /\ Len(activeTimers) = 2
    /\ \A i \in 1..Len(activeTimers) : IsRunning(activeTimers[i])
    /\ activeTimers[1].dashoffset # OffsetZero
    /\ pendingFrames = 1

---------------------------------------------------------------------------
(* C6: the loop runs whenever it is needed.  In every reachable state in    *)
(* which the registry holds a Running record, isAnimationLoopRunning is     *)
(* true and a frame is pending.                                             *)
C6_LoopRunsWhenNeeded ==
    (\E i \in 1..Len(activeTimers) : IsRunning(activeTimers[i])) =>
        (isAnimationLoopRunning /\ pendingFrames >= 1)

\* a record created beside one that has finished (the state createTimer
\* leaves when that one's last frame had stopped the loop): it is running,
\* its ring untouched, and a frame is pending
C6_Witness ==
    /\ Len(activeTimers) = 2
    /\ activeTimers[1].element = 1
    /\ IsFinished(activeTimers[1])
    /\ IsRunning(activeTimers[2])
    /\ activeTimers[2].dashoffset = OffsetZero
    /\ activeTimers[2].timeRemainingWhenPaused = 0
    /\ activeTimers[2].endTime - activeTimers[2].totalDuration < now
    /\ isAnimationLoopRunning
    /\ pendingFrames = 1

---------------------------------------------------------------------------
(* What C7 says formatTime renders: floor((ms + 999) / 1000) seconds as     *)
(* MM:SS                                                                    *)
CeilingDisplay(ms) ==
    LET totalSeconds == (ms + 999) \div 1000
    IN  PadStart2(String(totalSeconds \div 60)) \o ":" \o PadStart2(String(totalSeconds % 60))

(* C7: the displayed time is the ceiling of the remaining milliseconds in   *)
(* whole seconds, at creation (of totalDurationMs) and after every frame    *)
(* (of endTime - now, for a record the frame leaves running).               *)
C7_DisplayIsCeiling ==
    [][/\ (Len(activeTimers') = Len(activeTimers) + 1) =>
             LET new == activeTimers'[Len(activeTimers')]
             IN  new.text = CeilingDisplay(new.totalDuration)
       /\ FrameStep =>
             \A i \in 1..Len(activeTimers) :
                (IsRunning(activeTimers[i]) /\ activeTimers[i].endTime > now) =>
                   activeTimers'[i].text = CeilingDisplay(activeTimers[i].endTime - now)]_vars

---------------------------------------------------------------------------
(* C8: immediately after createTimer with totalDurationMs > 0 at clock now, *)
(* the registry is the old one with one record appended; that record is     *)
(* Running, has the duration asked for, endTime = now + totalDurationMs and *)
(* stroke-dashoffset 0 (the full ring).                                     *)
C8_CreateAppendsRunning ==
    [][\A n \in NameInputs, d \in DurationInputs :
          (d[1] > 0 /\ nextElement' = nextElement + 1 /\ Submit(n, d)) =>
             /\ Len(activeTimers') = Len(activeTimers) + 1
             /\ SubSeq(activeTimers', 1, Len(activeTimers)) = activeTimers
             /\ LET new == activeTimers'[Len(activeTimers')]
                IN  /\ ~new.isFinished /\ ~new.isPaused
                    /\ new.totalDuration * d[2] = d[1] * 60 * 1000
                    /\ new.totalDuration > 0
                    /\ new.endTime = now + new.totalDuration
                    /\ new.dashoffset[1] = 0
                    /\ \A i \in 1..Len(activeTimers) :
                          activeTimers[i].element # new.element]_vars

\* a record just appended behind an older one, at a clock that has moved
C8_Witness ==
    /\ Len(activeTimers) = 2
    /\ now > 0
    /\ IsRunning(activeTimers[2])
    /\ activeTimers[2].endTime = now + activeTimers[2].totalDuration
    /\ activeTimers[2].dashoffset = OffsetZero
    /\ activeTimers[1].dashoffset # OffsetZero

---------------------------------------------------------------------------
(* Whether a stroke-dashoffset of offset[1] / offset[2] of CIRCUMFERENCE,   *)
(* in lowest terms, leaves the fraction remaining / total of the ring: that *)
(* is 1 - offset[1] / offset[2] = remaining / total.                        *)
ShowsFraction(offset, remaining, total) ==
    /\ total % offset[2] = 0
    /\ (offset[2] - offset[1]) * (total \div offset[2]) = remaining

(* C9: a frame judges every timer against one clock value and on its own.   *)
(* After a frame at clock now, every record that was Running before it is   *)
(* Finished if endTime <= now, and otherwise still Running with a ring      *)
(* that shows the fraction (endTime - now) / totalDuration.                 *)
C9_FrameJudgesEachTimer ==
    [][FrameStep =>
          /\ Len(activeTimers') = Len(activeTimers)
          /\ \A i \in 1..Len(activeTimers) :
                IsRunning(activeTimers[i]) =>
                   LET before == activeTimers[i]
                       after == activeTimers'[i]
                   IN  IF before.endTime <= now
                       THEN IsFinished(after)
                       ELSE /\ IsRunning(after)
                            /\ ShowsFraction(after.dashoffset, before.endTime - now,
                                             before.totalDuration)]_vars

\* timers of 60000 ms and 120000 ms created at 0, after the frame at 60000:
\* the first finished, the second at one half
C9_Witness ==
    /\ Len(activeTimers) = 2
    /\ now = 60000
    /\ activeTimers[1].totalDuration = 60000 /\ activeTimers[1].endTime = 60000
    /\ IsFinished(activeTimers[1])
    /\ activeTimers[2].totalDuration = 120000 /\ activeTimers[2].endTime = 120000
    /\ IsRunning(activeTimers[2])
    /\ activeTimers[2].dashoffset = Fraction(1, 2)

---------------------------------------------------------------------------
(* C10: the remaining time stored by a pause is clamped to >= 0: in every   *)
(* reachable state timeRemainingWhenPaused of a Paused record is            *)
(* non-negative.                                                            *)
C10_PausedRemainingNonNegative ==
    \A i \in 1..Len(activeTimers) :
        IsPaused(activeTimers[i]) => activeTimers[i].timeRemainingWhenPaused >= 0

---------------------------------------------------------------------------
(* C11: removal is idempotent and unknown ids are silent no-ops.  A click   *)
(* on the delete button of a record of the registry, in any status, leaves  *)
(* the registry without that record and with the others as they were, in   *)
(* their order; a click on the delete or the pause button of an element     *)
(* that has no record in the registry (never created, or removed before)    *)
(* changes nothing: not the registry, not a record, not the loop state.     *)
(* Every handler is a total function of the state, so none raises an error. *)
InRegistry(timers, element) ==
    \E i \in 1..Len(timers) : timers[i].element = element

C11_RemoveIdempotent ==
    [][\A e \in Elements :
          /\ (InRegistry(activeTimers, e) /\ Click(e, "timer-delete")) =>
                activeTimers' = SelectSeq(activeTimers, LAMBDA t : t.element # e)
          /\ (~InRegistry(activeTimers, e)
                /\ (Click(e, "timer-delete") \/ Click(e, "timer-toggle-pause"))) =>
                UNCHANGED vars
          /\ (InRegistry(activeTimers, e) /\ ~InRegistry(activeTimers', e)) =>
                /\ activeTimers' = SelectSeq(activeTimers, LAMBDA t : t.element # e)
                /\ UNCHANGED <<isAnimationLoopRunning, pendingFrames>>]_vars

\* the first record, finished, has been removed; the second is still there,
\* paused, and a frame is pending
C11_Witness ==
    /\ nextElement = 3
    /\ BeepCount(1) = 1
    /\ ~InRegistry(activeTimers, 1)
    /\ Len(activeTimers) = 1
    /\ activeTimers[1].element = 2
    /\ IsPaused(activeTimers[1])
    /\ pendingFrames = 1

---------------------------------------------------------------------------
(* C12, as stated: pause is idempotent.  A click on the pause button of a   *)
(* record that is already Paused (the second request in a row) leaves it    *)
(* Paused, with the remaining time the first request stored.                *)
C12_Original ==
    [][\A i \in 1..Len(activeTimers) :
          (IsPaused(activeTimers[i])
             /\ Click(activeTimers[i].element, "timer-toggle-pause")) =>
                /\ Len(activeTimers') = Len(activeTimers)
                /\ IsPaused(activeTimers'[i])
                /\ activeTimers'[i].timeRemainingWhenPaused =
                      activeTimers[i].timeRemainingWhenPaused]_vars

(* C12, amended: the pause button is a toggle.  A click on it pauses a      *)
(* Running record, storing endTime - now and leaving endTime; the next      *)
(* click on it resumes the record: it is Running again, its stored          *)
(* remaining time is still the one the first click captured, and its        *)
(* endTime is the clock of the second click plus that remaining time.       *)
C12_PauseIsAToggle ==
    [][\A i \in 1..Len(activeTimers) :
          Click(activeTimers[i].element, "timer-toggle-pause") =>
             /\ Len(activeTimers') = Len(activeTimers)
             /\ LET before == activeTimers[i]
                    after == activeTimers'[i]
                IN  /\ IsRunning(before) =>
                          /\ IsPaused(after)
                          /\ after.timeRemainingWhenPaused = before.endTime - now
                          /\ after.endTime = before.endTime
                    /\ IsPaused(before) =>
                          /\ IsRunning(after)
                          /\ after.timeRemainingWhenPaused =
                                before.timeRemainingWhenPaused
                          /\ after.endTime = now + before.timeRemainingWhenPaused
                          /\ "paused" \notin after.classes]_vars

\* a record that ran for a while, was paused and has been resumed by a second
\* click at the present instant: all its stored remaining time is still ahead
C12_Witness ==
    \E i \in 1..Len(activeTimers) :
        /\ IsRunning(activeTimers[i])
        /\ "paused" \notin activeTimers[i].classes
        /\ activeTimers[i].timeRemainingWhenPaused > 0
        /\ activeTimers[i].timeRemainingWhenPaused < activeTimers[i].totalDuration
        /\ activeTimers[i].endTime = now + activeTimers[i].timeRemainingWhenPaused

---------------------------------------------------------------------------
(* C13: completion does not remove a record.  A frame leaves the registry   *)
(* with the same elements in the same order; a record that is Finished is   *)
(* still in the registry, Finished, after every step that is not a click on *)
(* its delete button; and a step after which the registry no longer starts  *)
(* with the elements it held is a click on a delete button (removeTimer).   *)
ElementsOf(timers) == [i \in 1..Len(timers) |-> timers[i].element]

KeepsElements(before, after) ==
    /\ Len(after) >= Len(before)
    /\ \A i \in 1..Len(before) : after[i].element = before[i].element

C13_CompletionKeepsRecord ==
    [][/\ FrameStep => ElementsOf(activeTimers') = ElementsOf(activeTimers)
       /\ ~KeepsElements(activeTimers, activeTimers') =>
             \E e \in Elements :
                 /\ InRegistry(activeTimers, e)
                 /\ Click(e, "timer-delete")
       /\ \A i \in 1..Len(activeTimers) :
             (IsFinished(activeTimers[i])
                /\ ~Click(activeTimers[i].element, "timer-delete")) =>
                   \E j \in 1..Len(activeTimers') :
                       /\ activeTimers'[j].element = activeTimers[i].element
                       /\ IsFinished(activeTimers'[j])]_vars

\* the first record has completed in a frame that drew the second one, and is
\* still the first of the registry, with the second behind it
C13_Witness ==
    /\ ElementsOf(activeTimers) = <<1, 2>>
    /\ IsFinished(activeTimers[1])
    /\ BeepCount(1) = 1
    /\ activeTimers[1].endTime < now
    /\ IsRunning(activeTimers[2])
    /\ activeTimers[2].dashoffset # OffsetZero

---------------------------------------------------------------------------
(* C14: a frame schedules the next frame exactly when, after its pass, some *)
(* record of the registry is not finished (Running with time left, or       *)
(* Paused), and then leaves isAnimationLoopRunning as it was; otherwise it  *)
(* schedules nothing and sets isAnimationLoopRunning to false.  So when the *)
(* registry is empty or all finished, at most one frame is pending and the  *)
(* loop is idle after it.                                                   *)
SomeUnfinished(timers) == \E i \in 1..Len(timers) : ~timers[i].isFinished

C14_TickReschedulesIffUnfinished ==
    /\ [](~SomeUnfinished(activeTimers) => pendingFrames <= 1)
    /\ [][FrameStep =>
             /\ (pendingFrames' = pendingFrames) <=> SomeUnfinished(activeTimers')
             /\ SomeUnfinished(activeTimers') =>
                   isAnimationLoopRunning' = isAnimationLoopRunning
             /\ ~SomeUnfinished(activeTimers') =>
                   /\ pendingFrames' = pendingFrames - 1
                   /\ ~isAnimationLoopRunning'
             /\ ~SomeUnfinished(activeTimers) =>
                   /\ pendingFrames' = 0
                   /\ ~isAnimationLoopRunning']_vars

\* every timer created has been removed before it finished, and the frame
\* that found the registry empty has stopped the loop
C14_Witness ==
    /\ activeTimers = <<>>
    /\ nextElement = 3
    /\ beepCalls = <<>>
    /\ pendingFrames = 0
    /\ ~isAnimationLoopRunning

---------------------------------------------------------------------------
(* C15: the fraction of the ring a frame draws for a Running record lies in *)
(* (0, 1].  With the clock never set back, in every reachable state a       *)
(* Running record has endTime - now <= totalDuration (and totalDuration >   *)
(* 0), whatever pauses and resumes it went through; no step changes the     *)
(* totalDuration of a record; and the stroke-dashoffset a frame writes for  *)
(* a record it leaves Running is at least 0 and less than CIRCUMFERENCE.    *)
C15_ProgressWithinUnit ==
    /\ [](\A i \in 1..Len(activeTimers) :
             /\ activeTimers[i].totalDuration > 0
             /\ IsRunning(activeTimers[i]) =>
                   activeTimers[i].endTime - now <= activeTimers[i].totalDuration)
    /\ [][/\ \A i \in 1..Len(activeTimers), j \in 1..Len(activeTimers') :
                (activeTimers'[j].element = activeTimers[i].element) =>
                    activeTimers'[j].totalDuration = activeTimers[i].totalDuration
          /\ FrameStep =>
                \A i \in 1..Len(activeTimers) :
                    (IsRunning(activeTimers[i]) /\ IsRunning(activeTimers'[i])) =>
                        /\ activeTimers'[i].dashoffset[1] >= 0
                        /\ activeTimers'[i].dashoffset[1] < activeTimers'[i].dashoffset[2]
                        /\ activeTimers'[i].dashoffset =
                              RunningOffset(activeTimers[i].endTime - now,
                                            activeTimers[i].totalDuration)]_vars

\* a record that was paused after running for a while, resumed, and has run
\* on since: a frame has drawn the part of its time that is left
C15_Witness ==
    \E i \in 1..Len(activeTimers) :
        LET t == activeTimers[i]
        IN  /\ IsRunning(t)
            /\ t.timeRemainingWhenPaused > 0
            /\ t.timeRemainingWhenPaused < t.totalDuration
            /\ t.endTime - now > 0
            /\ t.endTime - now < t.timeRemainingWhenPaused
            /\ t.dashoffset = RunningOffset(t.endTime - now, t.totalDuration)

---------------------------------------------------------------------------
(* C16: a frame leaves every Paused record untouched.  Whatever the clock   *)
(* shows, also a value past the stale endTime, a frame changes no field of  *)
(* a Paused record (endTime, timeRemainingWhenPaused, flags, ring offset,   *)
(* displayed time) and calls neither playBeep nor logTimer for it; and no   *)
(* step at all takes a record from Paused to Finished.                      *)
C16_FrameLeavesPaused ==
    [][/\ FrameStep =>
             \A i \in 1..Len(activeTimers) :
                 IsPaused(activeTimers[i]) =>
                     /\ activeTimers'[i] = activeTimers[i]
                     /\ BeepCount(activeTimers[i].element)' =
                           BeepCount(activeTimers[i].element)
                     /\ LogCount(activeTimers[i].element)' =
                           LogCount(activeTimers[i].element)
       /\ \A i \in 1..Len(activeTimers), j \in 1..Len(activeTimers') :
             (activeTimers'[j].element = activeTimers[i].element
                /\ IsPaused(activeTimers[i])) =>
                   ~activeTimers'[j].isFinished]_vars

\* The first record, of 5000 ms, was paused before it had run at all, with a
\* deadline of 5000.  The second one has finished, at a deadline after 5000:
\* the frame that finished it passed over the first one, paused, with the
\* clock past the first one's deadline, and left it Paused with all its time.
C16_Witness ==
    /\ ElementsOf(activeTimers) = <<1, 2>>
    /\ IsPaused(activeTimers[1])
    /\ activeTimers[1].totalDuration = 5000
    /\ activeTimers[1].timeRemainingWhenPaused = 5000
    /\ activeTimers[1].endTime = 5000
    /\ activeTimers[1].dashoffset = OffsetZero
    /\ BeepCount(1) = 0
    /\ IsFinished(activeTimers[2])
    /\ activeTimers[2].endTime > 5000
    /\ now > 5000

---------------------------------------------------------------------------
(* C17: the two status flags are never both set.  In every reachable state  *)
(* every record of the registry is in exactly one of the three statuses:    *)
(* Running (neither flag), Paused (isPaused only), Finished (isFinished     *)
(* only); the classes of its element say the same.                          *)
C17_FlagsExclusive ==
    \A i \in 1..Len(activeTimers) :
        /\ ~(activeTimers[i].isFinished /\ activeTimers[i].isPaused)
        /\ Cardinality({status \in {"Running", "Paused", "Finished"} :
               \/ /\ status = "Running"
                  /\ ~activeTimers[i].isFinished /\ ~activeTimers[i].isPaused
               \/ /\ status = "Paused"
                  /\ activeTimers[i].isPaused /\ ~activeTimers[i].isFinished
               \/ /\ status = "Finished"
                  /\ activeTimers[i].isFinished /\ ~activeTimers[i].isPaused}) = 1
        /\ ("paused" \in activeTimers[i].classes) <=> activeTimers[i].isPaused
        /\ ("finished" \in activeTimers[i].classes) <=> activeTimers[i].isFinished

\* a record that has been through all three statuses: it ran, was paused with
\* part of its time left, was resumed and has finished
C17_Witness ==
    \E i \in 1..Len(activeTimers) :
        /\ activeTimers[i].isFinished
        /\ ~activeTimers[i].isPaused
        /\ "paused" \notin activeTimers[i].classes
        /\ activeTimers[i].timeRemainingWhenPaused > 0
        /\ activeTimers[i].timeRemainingWhenPaused < activeTimers[i].totalDuration
        /\ BeepCount(activeTimers[i].element) = 1

---------------------------------------------------------------------------
(* C18: every timer left alone completes.  When the host keeps running the  *)
(* pending frame callbacks and the clock keeps advancing (FairSpec), a      *)
(* Running record whose deadline the clock of the model can reach is        *)
(* eventually Finished, unless it is removed or paused before; whatever     *)
(* other events occur in between.  A record that is resumed is Running      *)
(* anew, so the same holds from there on.                                   *)
LastInstant == CHOOSE v \in ClockValues : \A w \in ClockValues : w <= v

RunsToDeadline(element) ==
    \E i \in 1..Len(activeTimers) :
        /\ activeTimers[i].element = element
        /\ IsRunning(activeTimers[i])
        /\ activeTimers[i].endTime <= LastInstant

FinishedOrTakenAway(element) ==
    \A i \in 1..Len(activeTimers) :
        (activeTimers[i].element = element) =>
            (activeTimers[i].isFinished \/ activeTimers[i].isPaused)

C18_LeftAloneCompletes ==
    \A element \in Elements :
        RunsToDeadline(element) ~> FinishedOrTakenAway(element)

\* the second timer has finished after the first one was removed unfinished
\* and while nothing else was in the registry
C18_Witness ==
    /\ ElementsOf(activeTimers) = <<2>>
    /\ activeTimers[1].isFinished
    /\ activeTimers[1].timeRemainingWhenPaused = 0
    /\ activeTimers[1].endTime <= LastInstant
    /\ BeepCount(2) = 1
    /\ BeepCount(1) = 0
    /\ pendingFrames = 0

====
